---------------------------- MODULE Spec2Model ----------------------------
(***************************************************************************)
(* Model of omd_livestatus.py, the OMD Livestatus dynamic inventory script *)
(* for Ansible: one run of the script, from the construction of            *)
(* OMDLivestatusInventory (transport, decoding, inventory build) to the    *)
(* output printed by the main block.                                       *)
(*                                                                         *)
(* Conventions.                                                            *)
(*  - A Python dict is a record [keys, val]: keys is the sequence of its   *)
(*    keys in insertion order (the iteration order of dict.keys()), val    *)
(*    the mapping itself.  (Before Python 3.7 the iteration order is not   *)
(*    fixed; no property below depends on the order of the groups.)        *)
(*  - Group names are sequences of one-character strings, because          *)
(*    sanitizing works character by character.  Addresses, host names and  *)
(*    aliases are never taken apart by the code and are plain strings.     *)
(*  - The backend's response text is a sequence of tokens: "[" , one       *)
(*    token per row, "]".  A stream segment is a run of tokens.            *)
(***************************************************************************)
EXTENDS Integers, Sequences, FiniteSets, TLC

VARIABLES
    pc,          \* position of the run: init, recv, decode, build, built, done, error
    method,      \* self.method: "socket" or "ssh"
    by_ip,       \* the by_ip argument of the constructor
    reply,       \* the complete response text the backend produces for the query
    unsent,      \* socket peer: the part of reply not yet put on the stream
    rcvbuf,      \* socket: text that has arrived and was not read yet
    peer_closed, \* socket: the peer has closed its side of the connection
    text,        \* the text the transport returned
    data,        \* self.data['hosts']
    inventory,   \* self.inventory
    output,      \* what the main block prints on stdout, see NoOutput
    stderr,      \* what the run writes on stderr
    error        \* the exception that ended the run, "none" if none

vars == <<pc, method, by_ip, reply, unsent, rcvbuf, peer_closed, text, data,
          inventory, output, stderr, error>>

----------------------------------------------------------------------------
(* Bounds of the model *)

\* Largest number of rows in a response.
MaxHosts == 3

----------------------------------------------------------------------------
(* Python dicts *)

EmptyDict == [keys |-> <<>>, val |-> <<>>]

\* k in d
In(k, d) == \E i \in 1..Len(d.keys) : d.keys[i] = k

\* d[k]
Get(d, k) == d.val[k]

\* d[k] = v
Put(d, k, v) ==
    [keys |-> IF In(k, d) THEN d.keys ELSE Append(d.keys, k),
     val  |-> (k :> v) @@ d.val]

KeySet(d) == {d.keys[i] : i \in 1..Len(d.keys)}

Min(a, b) == IF a <= b THEN a ELSE b

----------------------------------------------------------------------------
(* Class attributes *)

\* u'_meta', the reserved key of the inventory
META == <<"_", "m", "e", "t", "a">>

\* u'_NOGROUP', the group of the hosts that have no group
NOGROUP == <<"_", "N", "O", "G", "R", "O", "U", "P">>

BadCharsNoBlank == {".", ",", ";", ":", "[", "]", "/"}

\* _bad_chars = u'.,;:[]/ '
BadChars == {".", ",", ";", ":", "[", "]", "/", " "}

\* _replacement_char = u'_'
ReplacementChar == "_"

\* group.translate(self._trans_table), with _trans_table mapping the code of
\* every bad character to the replacement character
Translate(group) ==
    [i \in 1..Len(group) |->
        IF group[i] \in BadChars THEN ReplacementChar ELSE group[i]]

\* the bufsize argument of s.recv
RecvBufSize == 100000000

----------------------------------------------------------------------------
(* The backend's data: what a response can hold *)

G_web   == <<"w", "e", "b">>
G_all   == <<"d", ".", ",", ";", ":", "[", "]", "/", " ", "1">>
G_dmeta == <<".", "m", "e", "t", "a">>
G_d_1   == <<"d", "_", "_", "_", "_", "_", "_", "_", "_", "1">>

\* The groups columns of the rows.
TagLists == {<<>>, <<G_web>>, <<G_all, G_web, G_d_1>>, <<G_dmeta>>}

Addresses == {"10.0.0.1", "10.0.0.2"}

RoleVars == [keys |-> <<"ROLE">>, val |-> [ROLE |-> "db"]]

\* name, alias and custom variables of the backend's hosts; host names are
\* unique in the backend, addresses are not
Idents == {[name |-> "web1", alias |-> "Web One", cv |-> EmptyDict],
           [name |-> "web2", alias |-> "Web Two", cv |-> RoleVars],
           [name |-> "db1",  alias |-> "Database", cv |-> EmptyDict]}

Tok(t, v) == [t |-> t, v |-> v]

\* rows of the five columns the query asks for
GoodRows == {Tok("row", <<a, h.name, h.alias, g, h.cv>>) :
                a \in Addresses, h \in Idents, g \in TagLists}

\* rows that are not five-position arrays: four columns (no custom
\* variables), six columns, and a number in the place of a row
BadRows == {Tok("row", <<"10.0.0.2", "db1", "Database", <<G_web>>>>),
            Tok("row", <<"10.0.0.1", "db1", "Database", <<>>, EmptyDict, "x">>),
            Tok("num", <<>>)}

Rows == GoodRows \cup BadRows

RowSeqs == UNION {[1..n -> Rows] : n \in 0..MaxHosts}

\* host names are unique in the backend
UniqueNames(rows) ==
    \A i, j \in 1..Len(rows) :
        (i < j /\ rows[i].t = "row" /\ rows[j].t = "row")
            => rows[i].v[2] # rows[j].v[2]

\* The responses: arrays of rows, and responses that are not arrays (the
\* empty text, text that is not JSON, a number, the empty object).
Replies ==
    {<<Tok("[", <<>>)>> \o rows \o <<Tok("]", <<>>)>> :
        rows \in {r \in RowSeqs : UniqueNames(r)}}
    \cup {<<>>, <<Tok("junk", <<>>)>>, <<Tok("num", <<>>)>>, <<Tok("obj", <<>>)>>}

----------------------------------------------------------------------------
(* The state after option parsing, before the constructor runs *)

\* Nothing printed yet.  action is the output format the options select
\* ("static", "list" or "host"), arg the host of --host; the text printed is
\* in lines for static(), in listing for list(), in hostvars for host().
NoOutput == [action |-> "none", arg |-> "", lines |-> <<>>, listing |-> {},
             hostvars |-> {}]

Init ==
    /\ pc = "init"
    /\ method \in {"socket", "ssh"}
    /\ by_ip \in BOOLEAN
    /\ reply \in Replies
    /\ unsent = <<>>
    /\ rcvbuf = <<>>
    /\ peer_closed = FALSE
    /\ text = <<>>
    /\ data = <<>>
    /\ inventory = EmptyDict
    /\ output = NoOutput
    /\ stderr = <<>>
    /\ error = "none"

\* An exception nobody catches ends the run with a traceback on stderr.
Raise(exc) ==
    /\ pc' = "error"
    /\ error' = exc
    /\ stderr' = Append(stderr, "Traceback")

----------------------------------------------------------------------------
(* Transport *)

\* _read_from_socket, lines 121-124: connect, send the query, shut down the
\* write side.  The backend answers once it has the query.
SocketSend ==
    /\ pc = "init"
    /\ method = "socket"
    /\ pc' = "recv"
    /\ unsent' = reply
    /\ UNCHANGED <<method, by_ip, reply, rcvbuf, peer_closed, text, data,
                   inventory, output, stderr, error>>

\* s.connect fails: no socket at the path, or nobody listens
SocketConnectFails ==
    /\ pc = "init"
    /\ method = "socket"
    /\ Raise("socket.error")
    /\ UNCHANGED <<method, by_ip, reply, unsent, rcvbuf, peer_closed, text,
                   data, inventory, output>>

\* The backend writes the next n tokens of its response: one stream segment
\* arrives in the receive buffer.
PeerSend ==
    /\ pc = "recv"
    /\ \E n \in 1..Len(unsent) :
        /\ rcvbuf' = rcvbuf \o SubSeq(unsent, 1, n)
        /\ unsent' = SubSeq(unsent, n + 1, Len(unsent))
    /\ UNCHANGED <<pc, method, by_ip, reply, peer_closed, text, data,
                   inventory, output, stderr, error>>

\* The backend has written all of its response and closes the connection.
PeerClose ==
    /\ pc = "recv"
    /\ unsent = <<>>
    /\ ~peer_closed
    /\ peer_closed' = TRUE
    /\ UNCHANGED <<pc, method, by_ip, reply, unsent, rcvbuf, text, data,
                   inventory, output, stderr, error>>

\* s.recv(bufsize) on a stream socket: blocks until data has arrived or the
\* peer has closed, then returns what is in the receive buffer, at most
\* bufsize of it
Recv(buf, bufsize) == SubSeq(buf, 1, Min(Len(buf), bufsize))

\* _read_from_socket, line 125; the socket is dropped on return
SocketRecv ==
    /\ pc = "recv"
    /\ rcvbuf # <<>> \/ peer_closed
    /\ text' = Recv(rcvbuf, RecvBufSize)
    /\ pc' = "decode"
    /\ unsent' = <<>>
    /\ rcvbuf' = <<>>
    /\ peer_closed' = TRUE
    /\ UNCHANGED <<method, by_ip, reply, data, inventory, output, stderr,
                   error>>

\* _read_from_ssh: p.communicate writes the query and reads stdout to its
\* end; a non-zero return code of ssh raises RuntimeError
ReadFromSsh ==
    /\ pc = "init"
    /\ method = "ssh"
    /\ \E returncode \in {0, 255} :
        IF returncode # 0
        THEN /\ Raise("RuntimeError")
             /\ UNCHANGED text
        ELSE /\ text' = reply
             /\ pc' = "decode"
             /\ UNCHANGED <<stderr, error>>
    /\ UNCHANGED <<method, by_ip, reply, unsent, rcvbuf, peer_closed, data,
                   inventory, output>>

----------------------------------------------------------------------------
(* load_from_omd: decoding *)

Interior(t) == SubSeq(t, 2, Len(t) - 1)

\* The text is a JSON array: "[", values, "]".
IsJsonArray(t) ==
    /\ Len(t) >= 2
    /\ t[1].t = "["
    /\ t[Len(t)].t = "]"
    /\ \A i \in 2..(Len(t) - 1) : t[i].t \in {"row", "num"}

\* The text is a JSON value that is not an array: a number, the empty object.
IsJsonScalar(t) == Len(t) = 1 /\ t[1].t \in {"num", "obj"}

\* json.loads accepts the text; it raises ValueError otherwise
JsonLoads(t) == IsJsonArray(t) \/ IsJsonScalar(t)

\* the keys a row is zipped with
HostKeys == <<"ip", "name", "alias", "groups", "custom_vars">>

\* dict(zip(keys, row)): zip stops at the end of the shorter sequence
DictZip(keys, row) ==
    LET n == Min(Len(keys), Len(row))
    IN  [keys |-> SubSeq(keys, 1, n),
         val  |-> [k \in {keys[i] : i \in 1..n} |->
                      row[CHOOSE i \in 1..n : keys[i] = k]]]

\* The loop of lines 114-117 over the rows of the answer: the records
\* appended, and whether zip raised TypeError on a row that is no sequence.
RECURSIVE AppendHosts(_, _)
AppendHosts(hosts, rows) ==
    IF rows = <<>> THEN [hosts |-> hosts, err |-> FALSE]
    ELSE IF Head(rows).t # "row" THEN [hosts |-> hosts, err |-> TRUE]
    ELSE AppendHosts(Append(hosts, DictZip(HostKeys, Head(rows).v)), Tail(rows))

\* load_from_omd, lines 108-117, once the transport has returned
Decode ==
    /\ pc = "decode"
    /\ IF ~JsonLoads(text)
       THEN /\ Raise("ValueError")
            /\ UNCHANGED data
       ELSE IF IsJsonScalar(text)
       THEN IF text[1].t = "num"
            THEN /\ Raise("TypeError")       \* a number cannot be iterated
                 /\ UNCHANGED data
            ELSE /\ data' = <<>>             \* the empty object has no keys
                 /\ pc' = "build"
                 /\ UNCHANGED <<stderr, error>>
       ELSE LET r == AppendHosts(<<>>, Interior(text))
            IN  /\ data' = r.hosts
                /\ IF r.err
                   THEN Raise("TypeError")
                   ELSE pc' = "build" /\ UNCHANGED <<stderr, error>>
    /\ UNCHANGED <<method, by_ip, reply, unsent, rcvbuf, peer_closed, text,
                   inventory, output>>

----------------------------------------------------------------------------
(* Inventory builder *)

\* a lookup host[k] of the loop body raises KeyError unless all keys are there
Complete(host) == \A i \in 1..Len(HostKeys) : In(HostKeys[i], host)

GroupsOrNothing(host) == Get(host, "groups")

\* host['groups'] or [u'_NOGROUP']
GroupsOr(host) ==
    IF Get(host, "groups") = <<>> THEN <<NOGROUP>> ELSE Get(host, "groups")

\* lines 172-175 and 206-209: append to the group's list, or start it
AddHost(inv, sanitized_group, ident) ==
    IF In(sanitized_group, inv)
    THEN Put(inv, sanitized_group, Append(Get(inv, sanitized_group), ident))
    ELSE Put(inv, sanitized_group, <<ident>>)

\* the loop over the groups of one host, lines 170-175 and 204-209
RECURSIVE AddToGroups(_, _, _)
AddToGroups(inv, groups, ident) ==
    IF groups = <<>> THEN inv
    ELSE AddToGroups(AddHost(inv, Translate(Head(groups)), ident),
                     Tail(groups), ident)

\* the hostvars entry of lines 180-184
VarsByIp(host) ==
    Put(Put(Put(EmptyDict, "omd_name", Get(host, "name")),
            "omd_alias", Get(host, "alias")),
        "omd_custom_vars", Get(host, "custom_vars"))

HostvarsByIpOverwrite(hostvars, host) ==
    Put(hostvars, Get(host, "ip"), VarsByIp(host))

\* lines 178-184: the first host of an address keeps the entry
HostvarsByIp(hostvars, host) ==
    IF In(Get(host, "ip"), hostvars) THEN hostvars
    ELSE Put(hostvars, Get(host, "ip"), VarsByIp(host))

VarsByNameNoAddress(host) ==
    Put(Put(Put(EmptyDict, "ansible_host", Get(host, "name")),
            "omd_alias", Get(host, "alias")),
        "omd_custom_vars", Get(host, "custom_vars"))

\* the hostvars entry of lines 210-214
VarsByName(host) ==
    Put(Put(Put(EmptyDict, "ansible_host", Get(host, "ip")),
            "omd_alias", Get(host, "alias")),
        "omd_custom_vars", Get(host, "custom_vars"))

\* lines 210-214
HostvarsByName(hostvars, host) ==
    Put(hostvars, Get(host, "name"), VarsByName(host))

\* The loop of lines 169-187 over the hosts, from the inventory and hostvars
\* built so far; err when a lookup raised KeyError.
RECURSIVE ByIpLoop(_, _, _)
ByIpLoop(hosts, inv, hostvars) ==
    IF hosts = <<>> THEN [err |-> FALSE, inventory |-> inv, hostvars |-> hostvars]
    ELSE IF ~Complete(Head(hosts))
    THEN [err |-> TRUE, inventory |-> inv, hostvars |-> hostvars]
    ELSE ByIpLoop(Tail(hosts),
                  AddToGroups(inv, GroupsOr(Head(hosts)), Get(Head(hosts), "ip")),
                  HostvarsByIp(hostvars, Head(hosts)))

\* The loop of lines 203-214.
RECURSIVE ByNameLoop(_, _, _)
ByNameLoop(hosts, inv, hostvars) ==
    IF hosts = <<>> THEN [err |-> FALSE, inventory |-> inv, hostvars |-> hostvars]
    ELSE IF ~Complete(Head(hosts))
    THEN [err |-> TRUE, inventory |-> inv, hostvars |-> hostvars]
    ELSE ByNameLoop(Tail(hosts),
                    AddToGroups(inv, GroupsOr(Head(hosts)), Get(Head(hosts), "name")),
                    HostvarsByName(hostvars, Head(hosts)))

\* lines 188-191 and 215-218: self.inventory = inventory, then
\* self.inventory['_meta'] = {'hostvars': hostvars}
WithMeta(inv, hostvars) == Put(inv, META, [hostvars |-> hostvars])

build_inventory_by_ip ==
    /\ pc = "build"
    /\ by_ip
    /\ LET r == ByIpLoop(data, EmptyDict, EmptyDict)
       IN  IF r.err
           THEN Raise("KeyError") /\ UNCHANGED inventory
           ELSE /\ inventory' = WithMeta(r.inventory, r.hostvars)
                /\ pc' = "built"
                /\ UNCHANGED <<stderr, error>>
    /\ UNCHANGED <<method, by_ip, reply, unsent, rcvbuf, peer_closed, text,
                   data, output>>

build_inventory_by_name ==
    /\ pc = "build"
    /\ ~by_ip
    /\ LET r == ByNameLoop(data, EmptyDict, EmptyDict)
       IN  IF r.err
           THEN Raise("KeyError") /\ UNCHANGED inventory
           ELSE /\ inventory' = WithMeta(r.inventory, r.hostvars)
                /\ pc' = "built"
                /\ UNCHANGED <<stderr, error>>
    /\ UNCHANGED <<method, by_ip, reply, unsent, rcvbuf, peer_closed, text,
                   data, output>>

----------------------------------------------------------------------------
(* Output *)

\* self.inventory['_meta']['hostvars']
Hostvars(inv) == Get(inv, META).hostvars

\* the keys of the groups, in the order of self.inventory.keys()
GroupKeys(inv) == SelectSeq(inv.keys, LAMBDA k : k # META)

\* json.dumps of a dict: the text of a JSON object, given by the set of its
\* members (indent and sort_keys change the layout of the text, not the
\* members)
JsonDumps(d) == {<<k, Get(d, k)>> : k \in KeySet(d)}

\* the text "{}": the JSON object without members
EmptyObject == {}

HostWholeBlock(inv, name) ==
    IF In(name, Hostvars(inv)) THEN JsonDumps(Hostvars(inv)) ELSE EmptyObject

\* host(name), lines 226-233
Host(inv, name) ==
    IF In(name, Hostvars(inv))
    THEN JsonDumps(Get(Hostvars(inv), name))
    ELSE EmptyObject

\* the line of one host, lines 242-246: the identifier and the variables of
\* its hostvars entry, one varname="value" per key in the order of vars.keys()
HostLine(inv, host) ==
    LET hostvars == Get(Hostvars(inv), host)
    IN  [kind |-> "host", host |-> host,
         vars |-> [i \in 1..Len(hostvars.keys) |->
                      <<hostvars.keys[i], Get(hostvars, hostvars.keys[i])>>]]

GroupLinesFirstHost(inv, group) ==
    <<[kind |-> "group", group |-> group]>>
    \o [i \in 1..Min(1, Len(Get(inv, group))) |-> HostLine(inv, Get(inv, group)[i])]

\* lines 240-246 for one group: the header, then a line for each host of
\* self.inventory[group]
GroupLines(inv, group) ==
    <<[kind |-> "group", group |-> group]>>
    \o [i \in 1..Len(Get(inv, group)) |-> HostLine(inv, Get(inv, group)[i])]

RECURSIVE StaticLines(_, _)
StaticLines(inv, groups) ==
    IF groups = <<>> THEN <<>>
    ELSE GroupLines(inv, Head(groups)) \o StaticLines(inv, Tail(groups))

\* line 242 raises KeyError for a host that has no hostvars entry
StaticRaises(inv) ==
    \E i \in 1..Len(GroupKeys(inv)) :
        \E j \in 1..Len(Get(inv, GroupKeys(inv)[i])) :
            ~In(Get(inv, GroupKeys(inv)[i])[j], Hostvars(inv))

\* static(), lines 237-247: the comment with the time of creation, then the
\* groups
Static(inv) == <<[kind |-> "comment"]>> \o StaticLines(inv, GroupKeys(inv))

\* the hosts --host is asked for
HostArgs == {"10.0.0.1", "web2", "nosuch"}

\* main block, opts.static: print(inv.static())
PrintStatic ==
    /\ pc = "built"
    /\ IF StaticRaises(inventory)
       THEN /\ Raise("KeyError")
            /\ output' = [NoOutput EXCEPT !.action = "static"]
       ELSE /\ output' = [NoOutput EXCEPT !.action = "static",
                                          !.lines = Static(inventory)]
            /\ pc' = "done"
            /\ UNCHANGED <<stderr, error>>
    /\ UNCHANGED <<method, by_ip, reply, unsent, rcvbuf, peer_closed, text,
                   data, inventory>>

\* main block, opts.list: print(inv.list(indent=4, sort_keys=True))
PrintList ==
    /\ pc = "built"
    /\ output' = [NoOutput EXCEPT !.action = "list",
                                  !.listing = JsonDumps(inventory)]
    /\ pc' = "done"
    /\ UNCHANGED <<method, by_ip, reply, unsent, rcvbuf, peer_closed, text,
                   data, inventory, stderr, error>>

\* main block, opts.host: print(inv.host(opts.host, indent=4, sort_keys=True))
PrintHost ==
    /\ pc = "built"
    /\ \E name \in HostArgs :
        output' = [NoOutput EXCEPT !.action = "host", !.arg = name,
                                   !.hostvars = Host(inventory, name)]
    /\ pc' = "done"
    /\ UNCHANGED <<method, by_ip, reply, unsent, rcvbuf, peer_closed, text,
                   data, inventory, stderr, error>>

Next ==
    \/ SocketSend
    \/ SocketConnectFails
    \/ PeerSend
    \/ PeerClose
    \/ SocketRecv
    \/ ReadFromSsh
    \/ Decode
    \/ build_inventory_by_ip
    \/ build_inventory_by_name
    \/ PrintStatic
    \/ PrintList
    \/ PrintHost

Spec == Init /\ [][Next]_vars


----------------------------------------------------------------------------
(* Vocabulary of the properties, in the words of the specification *)

\* an inventory has been built from the records in data
Built == pc \in {"built", "done"}

Records == 1..Len(data)

Address(i) == Get(data[i], "ip")
Name(i) == Get(data[i], "name")
Alias(i) == Get(data[i], "alias")
Tags(i) == Get(data[i], "groups")
CustomVars(i) == Get(data[i], "custom_vars")

\* the identifier of a record in the mode of the build
Identifier(i) == IF by_ip THEN Address(i) ELSE Name(i)

Elements(seq) == {seq[i] : i \in 1..Len(seq)}

Forbidden == {".", ",", ";", ":", "[", "]", "/", " "}
Sentinel == <<"_", "N", "O", "G", "R", "O", "U", "P">>
Reserved == <<"_", "m", "e", "t", "a">>

Sanitized(g) ==
    [i \in 1..Len(g) |-> IF g[i] \in Forbidden THEN "_" ELSE g[i]]

\* the raw tags of a record, the sentinel for a record that has none
TagsOrSentinel(i) == IF Tags(i) = <<>> THEN <<Sentinel>> ELSE Tags(i)

\* the inventory maps key k to a host list (the reserved key holds the
\* host-variables block, not a host list)
IsHostList(k) == k # Reserved /\ In(k, inventory)

\* two records share an address
DuplicateAddress ==
    \E i, j \in Records : i < j /\ Address(i) = Address(j)

----------------------------------------------------------------------------
(* C1 *)

C1_Witness ==
    /\ Built
    /\ by_ip
    /\ \E i, j \in Records :
        i < j /\ Address(i) = Address(j) /\ Name(i) # Name(j)
              /\ CustomVars(i).keys # CustomVars(j).keys

\* C1: after build_inventory_by_ip the keys of hostvars are exactly the
\* distinct addresses of the records, and the entry of an address holds the
\* name, alias and custom variables of the first record with that address.
C1_ByIpFirstRecordWins ==
    (Built /\ by_ip) =>
        LET hv == Hostvars(inventory)
        IN  /\ KeySet(hv) = {Address(i) : i \in Records}
            /\ Len(hv.keys) = Cardinality(KeySet(hv))
            /\ \A i \in Records :
                (\A j \in 1..(i - 1) : Address(j) # Address(i)) =>
                    /\ Get(Get(hv, Address(i)), "omd_name") = Name(i)
                    /\ Get(Get(hv, Address(i)), "omd_alias") = Alias(i)
                    /\ Get(Get(hv, Address(i)), "omd_custom_vars") = CustomVars(i)

----------------------------------------------------------------------------
(* C2 *)

----------------------------------------------------------------------------
(* C3 *)

\* C3 as stated: the identifier of a record without tags is in the list of
\* the sentinel group and in the list of no other group.
C3_OnlyUnderSentinel ==
    Built =>
        \A i \in Records :
            Tags(i) = <<>> =>
                /\ IsHostList(Sentinel)
                /\ Identifier(i) \in Elements(Get(inventory, Sentinel))
                /\ \A k \in Elements(GroupKeys(inventory)) :
                    k # Sentinel => Identifier(i) \notin Elements(Get(inventory, k))

C3_Witness ==
    /\ Built
    /\ by_ip
    /\ \E i, j \in Records :
        /\ i # j
        /\ Tags(i) = <<>>
        /\ Address(i) = Address(j)
        /\ \E t \in Elements(Tags(j)) :
            /\ IsHostList(Sanitized(t))
            /\ Sanitized(t) # Sentinel
            /\ Address(i) \in Elements(Get(inventory, Sanitized(t)))

\* C3, amended: the identifier of a record without tags is in the list of
\* the sentinel group, and it is in the list of another group only when
\* another record with the same identifier has a tag that sanitizes to the
\* name of that group.
C3_SentinelUnlessShared ==
    Built =>
        \A i \in Records :
            Tags(i) = <<>> =>
                /\ IsHostList(Sentinel)
                /\ Identifier(i) \in Elements(Get(inventory, Sentinel))
                /\ \A k \in Elements(GroupKeys(inventory)) :
                    (k # Sentinel /\ Identifier(i) \in Elements(Get(inventory, k)))
                        => \E j \in Records :
                            /\ j # i
                            /\ Identifier(j) = Identifier(i)
                            /\ \E t \in Elements(Tags(j)) : Sanitized(t) = k

----------------------------------------------------------------------------
(* C4 *)

C4_Witness ==
    /\ pc = "done"
    /\ output.action = "host"
    /\ KeySet(Hostvars(inventory)) # {}
    /\ output.arg \notin KeySet(Hostvars(inventory))
    /\ \E i \in Records : Address(i) = output.arg

\* C4: host(name) never raises; for a name that is no key of hostvars it
\* returns "{}", for a key it returns the variables of that host.
C4_HostLookup ==
    output.action = "host" =>
        /\ pc = "done"
        /\ error = "none"
        /\ IF output.arg \in KeySet(Hostvars(inventory))
           THEN LET v == Get(Hostvars(inventory), output.arg)
                IN  /\ v.keys # <<>>
                    /\ output.hostvars = {<<v.keys[i], v.val[v.keys[i]]>> :
                                            i \in 1..Len(v.keys)}
           ELSE output.hostvars = {}

----------------------------------------------------------------------------
(* C5 *)

\* C5: the text _read_from_socket returns is the whole response, however
\* the backend splits it into segments.
C5_SocketReturnsWholeResponse ==
    (method = "socket" /\ pc = "decode") => text = reply

----------------------------------------------------------------------------
(* C6 *)

C6_Witness ==
    /\ Built
    /\ \E i \in Records : \E t \in Elements(Tags(i)) :
        /\ Forbidden \subseteq Elements(t)
        /\ IsHostList(Sanitized(t))

\* C6: every key of the inventory but the reserved one is a raw group name
\* of the records (or the sentinel) with the forbidden characters replaced
\* by "_" and the other characters unchanged; it holds no forbidden character.
C6_GroupKeysSanitized ==
    Built =>
        \A k \in Elements(GroupKeys(inventory)) :
            /\ Elements(k) \cap Forbidden = {}
            /\ \E i \in Records : \E t \in Elements(TagsOrSentinel(i)) :
                /\ Len(k) = Len(t)
                /\ \A c \in 1..Len(t) :
                    k[c] = IF t[c] \in Forbidden THEN "_" ELSE t[c]

----------------------------------------------------------------------------
(* C7 *)

\* the lines a host of a group list must be printed as
ExpectedVars(host) ==
    LET v == Get(Hostvars(inventory), host)
    IN  [n \in 1..Len(v.keys) |-> <<v.keys[n], v.val[v.keys[n]]>>]

C7_Witness ==
    /\ pc = "done"
    /\ output.action = "static"
    /\ by_ip
    /\ Len(GroupKeys(inventory)) >= 2
    /\ \E k \in Elements(GroupKeys(inventory)) :
        /\ Len(Get(inventory, k)) >= 2
        /\ Get(inventory, k)[1] = Get(inventory, k)[2]

\* C7: static() does not fail on a built inventory (every identifier of
\* every group list has a hostvars entry), and it prints, for every group
\* but the reserved key, one header followed by one line per entry of the
\* group's list, in the order of the list, with the identifier and the
\* variables of the identifier's hostvars entry.
C7_StaticLayout ==
    /\ Built =>
        \A k \in Elements(GroupKeys(inventory)) :
            Elements(Get(inventory, k)) \subseteq KeySet(Hostvars(inventory))
    /\ output.action = "static" =>
        /\ pc = "done"
        /\ error = "none"
        /\ LET L == output.lines
               Headers == {p \in 1..Len(L) : L[p].kind = "group"}
           IN  /\ Len(L) >= 1
               /\ L[1].kind = "comment"
               /\ \A p \in 2..Len(L) : L[p].kind \in {"group", "host"}
               /\ Len(L) >= 2 => L[2].kind = "group"
               /\ \A k \in Elements(GroupKeys(inventory)) :
                    Cardinality({p \in Headers : L[p].group = k}) = 1
               /\ \A p \in Headers :
                    /\ IsHostList(L[p].group)
                    /\ LET hosts == Get(inventory, L[p].group)
                       IN  /\ p + Len(hosts) <= Len(L)
                           /\ \A n \in 1..Len(hosts) :
                                /\ L[p + n].kind = "host"
                                /\ L[p + n].host = hosts[n]
                                /\ L[p + n].vars = ExpectedVars(hosts[n])
                           /\ \/ p + Len(hosts) = Len(L)
                              \/ L[p + Len(hosts) + 1].kind = "group"

----------------------------------------------------------------------------
(* C8 *)

\* the text is an array whose elements are all five-position arrays
FiveColumnArray(t) ==
    /\ Len(t) >= 2
    /\ t[1].t = "["
    /\ t[Len(t)].t = "]"
    /\ \A i \in 2..(Len(t) - 1) : t[i].t = "row" /\ Len(t[i].v) = 5

\* C8: load_from_omd raises an error on a response that is not an array of
\* five-position arrays, so that nothing is built or printed from it; a
\* response without rows gives no records and no error.
C8_MalformedResponseRaises ==
    /\ pc \in {"build", "built", "done"} => FiveColumnArray(text)
    /\ (pc = "error" /\ ~FiveColumnArray(text)) => error # "KeyError"
    /\ (pc # "decode" /\ Len(text) = 2 /\ FiveColumnArray(text)) =>
            data = <<>> /\ error = "none"

----------------------------------------------------------------------------
(* C9 *)

\* C9: with two hosts that share an address in an inventory built by
\* address, static() writes a warning on stderr; list() and host() write none.
C9_StaticWarnsOfDuplicates ==
    (pc = "done" /\ by_ip /\ DuplicateAddress) =>
        /\ output.action = "static" => stderr # <<>>
        /\ output.action \in {"list", "host"} => stderr = <<>>

----------------------------------------------------------------------------
(* C10 *)

\* the identifiers appended for key k: records in the order of the response,
\* the tags of a record in the order of the record
RECURSIVE AppendedFor(_, _, _)
AppendedFor(k, i, n) ==
    IF i > Len(data) THEN <<>>
    ELSE IF n > Len(TagsOrSentinel(i)) THEN AppendedFor(k, i + 1, 1)
    ELSE (IF Sanitized(TagsOrSentinel(i)[n]) = k THEN <<Identifier(i)>> ELSE <<>>)
         \o AppendedFor(k, i, n + 1)

\* C10: for every record and every raw tag g of it, the key sanitize(g)
\* maps to a host list that holds the identifier of the record; and the list
\* of every group is the sequence of the identifiers appended for it, in the
\* order of the response.
C10_EveryTagHasItsList ==
    Built =>
        /\ \A i \in Records : \A g \in Elements(TagsOrSentinel(i)) :
            /\ IsHostList(Sanitized(g))
            /\ Identifier(i) \in Elements(Get(inventory, Sanitized(g)))
        /\ \A k \in Elements(GroupKeys(inventory)) :
            Get(inventory, k) = AppendedFor(k, 1, 1)

=============================================================================
